---- MODULE Spec2Model ----
(***************************************************************************)
(* The BLS fetch / merge pipeline of "ECON 8320 Tools for Data Analysis".  *)
(*                                                                         *)
(* Two pipelines keep a snapshot file each:                                *)
(*   collect_data.py                       -> data.csv      (dataCsv)      *)
(*   initial_raw_data.py, update_raw_data.py -> raw_data.csv (rawCsv)      *)
(* and process_data.py derives processed_data.csv from raw_data.csv.       *)
(*                                                                         *)
(* Modelling conventions                                                   *)
(*   - a date string "YYYY-MM-01" is the record [year, month]; a pandas    *)
(*     Timestamp is the month ordinal year * 12 + month - 1;               *)
(*   - a period code such as "M06" is [letter |-> "M", num |-> 6];         *)
(*   - a DataFrame is [cols, rows], a row is [Date, v] with v a function   *)
(*     from the frame's columns to cells; a cell is a string, a number or  *)
(*     NaN; a csv file holds text only;                                    *)
(*   - a function that may raise returns [exc |-> "none", val |-> v] or    *)
(*     [exc |-> <the exception's type>].                                   *)
(***************************************************************************)
EXTENDS Integers, Sequences, FiniteSets, TLC

VARIABLES now, dataCsv, rawCsv, pc, df, all_records, start_year, run, call

vars == <<now, dataCsv, rawCsv, pc, df, all_records, start_year, run, call>>

(***************************************************************************)
(* Bounds of the model                                                     *)
(***************************************************************************)
\* the longest list of observations one API response carries
MaxObs == 2
\* the longest list of observations of a payload handed to a parser on its own
MaxPayload == 3
\* the most rows of a raw_data.csv handed to process_data.py
MaxRows == 2

(***************************************************************************)
(* Program constants                                                       *)
(***************************************************************************)
default_start_year == 2008
START_YEAR == 2008
END_YEAR == 2024

Absent == [absent |-> TRUE]

Ok(v) == [exc |-> "none", val |-> v]
Raise(e) == [exc |-> e]

(***************************************************************************)
(* Cells and text                                                          *)
(***************************************************************************)
NaN == [k |-> "nan"]
Str(s) == [k |-> "str", s |-> s]
(***************************************************************************)
(* float64                                                                 *)
(*                                                                         *)
(* A float64 is [k |-> "float", m, e] and stands for m * 2^e, with m a     *)
(* natural number of exactly 53 bits (or m = 0 and e = 0).  The numbers of *)
(* the model are positive, so there is no sign.  A natural number of any   *)
(* size is the sequence of its digits to the base 2^14, the lowest digit   *)
(* first, with no leading zero digit; 53 bits are four digits, the highest *)
(* of them in 2^10 .. 2^11 - 1.                                            *)
(***************************************************************************)
Radix == 2 ^ 14

Digit0(a) == IF a = <<>> THEN 0 ELSE Head(a)
Rest(a) == IF a = <<>> THEN <<>> ELSE Tail(a)
Cons(d, a) == IF d = 0 /\ a = <<>> THEN <<>> ELSE <<d>> \o a

RECURSIVE BigOfInt(_)
BigOfInt(n) == IF n = 0 THEN <<>> ELSE Cons(n % Radix, BigOfInt(n \div Radix))

RECURSIVE IntOfBig(_)
IntOfBig(a) == IF a = <<>> THEN 0 ELSE Head(a) + Radix * IntOfBig(Tail(a))

RECURSIVE BigAddC(_, _, _)
BigAddC(a, b, c) ==
    IF a = <<>> /\ b = <<>> THEN BigOfInt(c)
    ELSE LET x == Digit0(a) + Digit0(b) + c
         IN Cons(x % Radix, BigAddC(Rest(a), Rest(b), x \div Radix))

BigAdd(a, b) == BigAddC(a, b, 0)

RECURSIVE BigSubB(_, _, _)
\* a - b - c for a >= b + c
BigSubB(a, b, c) ==
    IF a = <<>> THEN <<>>
    ELSE LET x == Head(a) - Digit0(b) - c
         IN Cons(IF x < 0 THEN x + Radix ELSE x,
                 BigSubB(Tail(a), Rest(b), IF x < 0 THEN 1 ELSE 0))

BigSub(a, b) == BigSubB(a, b, 0)

RECURSIVE BigLess(_, _)
BigLess(a, b) ==
    IF Len(a) # Len(b) THEN Len(a) < Len(b)
    ELSE IF a = <<>> THEN FALSE
    ELSE IF a[Len(a)] # b[Len(b)] THEN a[Len(a)] < b[Len(b)]
    ELSE BigLess(SubSeq(a, 1, Len(a) - 1), SubSeq(b, 1, Len(b) - 1))

RECURSIVE BigMulDigit(_, _, _)
\* a * d + c for one digit d
BigMulDigit(a, d, c) ==
    IF a = <<>> THEN BigOfInt(c)
    ELSE LET x == Head(a) * d + c
         IN Cons(x % Radix, BigMulDigit(Tail(a), d, x \div Radix))

RECURSIVE BigMul(_, _)
BigMul(a, b) ==
    IF b = <<>> THEN <<>>
    ELSE BigAdd(BigMulDigit(a, Head(b), 0), Cons(0, BigMul(a, Tail(b))))

RECURSIVE BigHalf(_)
BigHalf(a) ==
    IF a = <<>> THEN <<>>
    ELSE Cons(Head(a) \div 2 + (Digit0(Tail(a)) % 2) * (Radix \div 2), BigHalf(Tail(a)))

BigOdd(a) == Digit0(a) % 2 = 1

Digit(a, i) == IF i <= Len(a) THEN a[i] ELSE 0

RECURSIVE Trim(_)
Trim(a) ==
    IF a = <<>> \/ a[Len(a)] # 0 THEN a ELSE Trim(SubSeq(a, 1, Len(a) - 1))

RECURSIVE QuotientDigit(_, _, _)
\* the largest q with q * d <= r, counted down from an estimate that is not
\* below it
QuotientDigit(r, d, q) ==
    IF BigLess(r, BigMulDigit(d, q, 0)) THEN QuotientDigit(r, d, q - 1) ELSE q

\* r \div d estimated from the highest digit of d and the digits of r over it
Estimate(r, d) ==
    LET g == (Digit(r, Len(d) + 1) * Radix + Digit(r, Len(d))) \div d[Len(d)]
    IN IF g < Radix THEN g ELSE Radix - 1

RECURSIVE LongDivision(_, _, _)
\* long division of the digits n, the highest first, into the remainder r < d
LongDivision(n, d, r) ==
    IF n = <<>> THEN [q |-> <<>>, r |-> r]
    ELSE LET r1 == Cons(n[Len(n)], r)
             qd == QuotientDigit(r1, d, Estimate(r1, d))
             h == LongDivision(SubSeq(n, 1, Len(n) - 1), d,
                               BigSub(r1, BigMulDigit(d, qd, 0)))
         IN [q |-> h.q \o <<qd>>, r |-> h.r]

\* the quotient and the remainder of n by d > 0
BigDivMod(n, d) ==
    LET h == LongDivision(n, d, <<>>) IN [q |-> Trim(h.q), r |-> h.r]

\* a >= top * 2^42, for a of at most five digits
AtLeast(a, top) == Len(a) > 4 \/ (Len(a) = 4 /\ a[4] >= top)

Zero == [k |-> "float", m |-> <<>>, e |-> 0]

RECURSIVE RoundBig(_, _, _)
\* the float64 nearest to (n + x) * 2^e, a tie to the even mantissa; x is a
\* fraction in [0, 1), not 0 exactly if sticky, and then n has 54 bits or more
RoundBig(n, e, sticky) ==
    IF n = <<>> THEN Zero
    ELSE IF Len(n) >= 6 THEN RoundBig(Tail(n), e + 14, sticky \/ Head(n) # 0)
    ELSE IF AtLeast(n, 2 ^ 12) THEN RoundBig(BigHalf(n), e + 1, sticky \/ BigOdd(n))
    ELSE IF AtLeast(n, 2 ^ 11)
    THEN LET h == BigHalf(n)
             up == BigOdd(n) /\ (sticky \/ BigOdd(h))
             m == IF up THEN BigAdd(h, <<1>>) ELSE h
         IN IF AtLeast(m, 2 ^ 11) THEN [k |-> "float", m |-> BigHalf(m), e |-> e + 2]
            ELSE [k |-> "float", m |-> m, e |-> e + 1]
    ELSE IF AtLeast(n, 2 ^ 10) THEN [k |-> "float", m |-> n, e |-> e]
    ELSE IF Len(n) <= 3 THEN RoundBig(<<0>> \o n, e - 14, sticky)
    ELSE RoundBig(BigAdd(n, n), e - 1, sticky)

\* float(n) of a small natural number
FloatOfInt(n) == RoundBig(BigOfInt(n), 0, FALSE)

\* Series * Series on float64 columns, one row
FloatMul(a, b) ==
    IF a = NaN \/ b = NaN THEN NaN
    ELSE RoundBig(BigMul(a.m, b.m), a.e + b.e, FALSE)

\* Series / Series on float64 columns, one row (no number of the model is 0)
FloatDiv(a, b) ==
    IF a = NaN \/ b = NaN THEN NaN
    ELSE IF a = Zero THEN Zero
    ELSE LET h == BigDivMod(BigMulDigit(<<0, 0, 0, 0>> \o a.m, 8, 0),
                            BigMulDigit(b.m, 8, 0))
         IN RoundBig(h.q, a.e - b.e - 56, h.r # <<>>)

RECURSIVE ShiftOut(_, _, _, _)
\* n shifted right by j bits: what is left, the last bit shifted out (r) and
\* whether a bit shifted out before it was set (s)
ShiftOut(n, j, r, s) ==
    IF j = 0 THEN [n |-> n, r |-> r, s |-> s]
    ELSE IF n = <<>> THEN [n |-> n, r |-> FALSE, s |-> s \/ r]
    ELSE IF j >= 14
    THEN ShiftOut(Tail(n), j - 14, Head(n) >= Radix \div 2,
                  s \/ r \/ Head(n) % (Radix \div 2) # 0)
    ELSE ShiftOut(BigHalf(n), j - 1, BigOdd(n), s \/ r)

\* numpy.rint: the nearest whole number, a tie to the even one
rint(a) ==
    IF a.e >= 0 THEN a
    ELSE LET x == ShiftOut(a.m, -a.e, FALSE, FALSE)
             up == x.r /\ (x.s \/ BigOdd(x.n))
         IN RoundBig(IF up THEN BigAdd(x.n, <<1>>) ELSE x.n, 0, FALSE)

\* the whole number below 2^31 a float64 holds, as an integer
IntOf(a) == IntOfBig(ShiftOut(a.m, -a.e, FALSE, FALSE).n)

\* round(series): numpy.around with 0 decimals is rint
round0(a) == IF a = NaN THEN NaN ELSE rint(a)

\* Series.round(2): numpy.around multiplies by 10^2, takes rint and divides
\* by 10^2, each step in float64
round2(a) ==
    IF a = NaN THEN NaN
    ELSE FloatDiv(rint(FloatMul(a, FloatOfInt(100))), FloatOfInt(100))

\* the numerals of the model: the text, its digits without the point and the
\* number of digits after the point
Numerals ==
    << [text |-> "0.7", digits |-> 7, places |-> 1],
       [text |-> "1", digits |-> 1, places |-> 0],
       [text |-> "1.1", digits |-> 11, places |-> 1],
       [text |-> "1.11", digits |-> 111, places |-> 2],
       [text |-> "1.45", digits |-> 145, places |-> 2],
       [text |-> "1.5", digits |-> 15, places |-> 1],
       [text |-> "2", digits |-> 2, places |-> 0],
       [text |-> "3", digits |-> 3, places |-> 0] >>

IsNumeral(x) == \E i \in 1..Len(Numerals) : Numerals[i].text = x
NumeralIndex(x) == CHOOSE i \in 1..Len(Numerals) : Numerals[i].text = x

\* the float64 of each numeral: the parsers take the digits as a float64 and
\* divide by the power of ten
NumeralValues ==
    [i \in 1..Len(Numerals) |->
        FloatDiv(FloatOfInt(Numerals[i].digits), FloatOfInt(10 ^ Numerals[i].places))]

NumeralValue(x) == NumeralValues[NumeralIndex(x)]
\* a number is written as the numeral of its value ("2" also stands for "2.0")
TextOf(a) == Numerals[CHOOSE i \in 1..Len(Numerals) : NumeralValues[i] = a].text

\* pd.to_numeric(column, errors = 'coerce'), one cell
to_numeric(c) ==
    IF c.k = "float" THEN c
    ELSE IF c.k = "str" /\ IsNumeral(c.s) THEN NumeralValue(c.s)
    ELSE NaN

(***************************************************************************)
(* Dates                                                                   *)
(***************************************************************************)
DateStr(y, m) == [year |-> y, month |-> m]

\* the order of the strings "YYYY-MM-01": year first, then the padded month
DateStrLess(a, b) ==
    a.year < b.year \/ (a.year = b.year /\ a.month < b.month)

\* pd.to_datetime of one date string: month 13 is no date
to_datetime(ds) ==
    IF ds.month \in 1..12 THEN Ok(ds.year * 12 + ds.month - 1)
    ELSE Raise("ValueError")

TsYear(ts) == ts \div 12
TsMonth(ts) == (ts % 12) + 1
\* how to_csv writes a Timestamp
TsText(ts) == DateStr(TsYear(ts), TsMonth(ts))

RECURSIVE SeqMax(_)
\* max(df['Date'])
SeqMax(s) ==
    IF Len(s) = 1 THEN s[1]
    ELSE LET m == SeqMax(Tail(s)) IN IF s[1] > m THEN s[1] ELSE m

(***************************************************************************)
(* DataFrames                                                              *)
(***************************************************************************)
EmptyFrame == [cols |-> {}, rows |-> <<>>]

\* the sequence s as an explicit tuple (TLC then evaluates each row once)
AsSeq(s) == s \o <<>>

\* DataFrame.empty
IsEmpty(t) == Len(t.rows) = 0

Dates(t) == [i \in 1..Len(t.rows) |-> t.rows[i].Date]

Widen(row, cols) ==
    [Date |-> row.Date,
     v |-> [c \in cols |-> IF c \in DOMAIN row.v THEN row.v[c] ELSE NaN]]

\* pd.concat([a, b]): the rows of a then those of b, over the union of the columns
concat(a, b) ==
    LET cols == a.cols \cup b.cols IN
    [cols |-> cols,
     rows |-> AsSeq([i \in 1..(Len(a.rows) + Len(b.rows)) |->
                 IF i <= Len(a.rows) THEN Widen(a.rows[i], cols)
                 ELSE Widen(b.rows[i - Len(a.rows)], cols)])]

RECURSIVE Pick(_, _, _)
\* the rows of s at the indices in keep, in order, from index i on
Pick(s, keep, i) ==
    IF i > Len(s) THEN <<>>
    ELSE (IF i \in keep THEN <<s[i]>> ELSE <<>>) \o Pick(s, keep, i + 1)

\* df.drop_duplicates(subset = ["Date"], keep = "last")
drop_duplicates_last(t) ==
    LET keep == {i \in 1..Len(t.rows) :
                   \A j \in (i + 1)..Len(t.rows) : t.rows[j].Date # t.rows[i].Date}
    IN [cols |-> t.cols, rows |-> Pick(t.rows, keep, 1)]

\* df[df['Date'] > last_date]
FilterAfter(t, last_date) ==
    LET keep == {i \in 1..Len(t.rows) : t.rows[i].Date > last_date}
    IN [cols |-> t.cols, rows |-> Pick(t.rows, keep, 1)]

RECURSIVE Insert(_, _)
\* r put into the date-sorted rows s, after the rows of the same date
Insert(r, s) ==
    IF s = <<>> THEN <<r>>
    ELSE IF r.Date < s[1].Date THEN <<r>> \o s
    ELSE <<s[1]>> \o Insert(r, Tail(s))

RECURSIVE SortRows(_)
SortRows(s) ==
    IF s = <<>> THEN <<>>
    ELSE Insert(s[Len(s)], SortRows(SubSeq(s, 1, Len(s) - 1)))

\* df.sort_values('Date') as a value: the rows in ascending date order
sort_values(t) == [cols |-> t.cols, rows |-> SortRows(t.rows)]

\* df['Date'] = pd.to_datetime(df['Date']): raises when one string is no date
DatesToDatetime(t) ==
    IF \E i \in 1..Len(t.rows) : to_datetime(t.rows[i].Date).exc # "none"
    THEN Raise("ValueError")
    ELSE Ok([cols |-> t.cols,
             rows |-> AsSeq([i \in 1..Len(t.rows) |->
                         [Date |-> to_datetime(t.rows[i].Date).val,
                          v |-> t.rows[i].v]])])

(***************************************************************************)
(* The csv file                                                            *)
(***************************************************************************)
CellText(c) ==
    IF c.k = "float" THEN TextOf(c) ELSE IF c.k = "str" THEN c.s ELSE ""

\* df.to_csv(path, index = False) of a frame whose Date column holds Timestamps
to_csv(t) ==
    [cols |-> t.cols,
     rows |-> AsSeq([i \in 1..Len(t.rows) |->
                 [Date |-> TsText(t.rows[i].Date),
                  v |-> [c \in t.cols |-> CellText(t.rows[i].v[c])]]])]

\* pd.read_csv(path): a column whose cells are all numerals or empty is read as
\* numbers, any other as strings; an empty cell is NaN; Date stays a string
read_csv(f) ==
    LET numeric(c) == \A i \in 1..Len(f.rows) :
                         f.rows[i].v[c] = "" \/ IsNumeral(f.rows[i].v[c])
        cell(c, x) == IF x = "" THEN NaN
                      ELSE IF numeric(c) THEN NumeralValue(x) ELSE Str(x)
    IN [cols |-> f.cols,
        rows |-> AsSeq([i \in 1..Len(f.rows) |->
                    [Date |-> f.rows[i].Date,
                     v |-> [c \in f.cols |-> cell(c, f.rows[i].v[c])]]])]

\* read_csv followed by df['Date'] = pd.to_datetime(df['Date'])
LoadSnapshot(f) == DatesToDatetime(read_csv(f)).val

(***************************************************************************)
(* The API: what one POST can come back with                               *)
(***************************************************************************)
M(n) == [letter |-> "M", num |-> n]
A01 == [letter |-> "A", num |-> 1]

HourlyEarningsId == "CES0500000003"
HoursWorkedId == "CES0500000002"

Obs(id, y, p, v) == [seriesID |-> id, year |-> y, period |-> p, value |-> v]

\* One observation of a response, in the order the nested loops over
\* Results.series and series.data meet them: the series' identifier with one
\* {year, period, value} item.  Hourly earnings of May and of June 2024, the
\* latter with two values (a first print and its revision); hours worked of
\* June 2024; an annual average (M13) of 2019; an annual (A01) observation.
ObsUniverse ==
    {Obs(HourlyEarningsId, 2024, M(5), "1"),
     Obs(HourlyEarningsId, 2024, M(6), "1"),
     Obs(HourlyEarningsId, 2024, M(6), "1.5"),
     Obs(HoursWorkedId, 2024, M(6), "1"),
     Obs(HourlyEarningsId, 2019, M(13), "1"),
     Obs(HourlyEarningsId, 2024, A01, "1")}

SeqsUpTo(S, n) == UNION {[1..k -> S] : k \in 0..n}

Transport == [kind |-> "transport"]
Malformed == [kind |-> "malformed"]
Json(status, hasResults, series) ==
    [kind |-> "json", status |-> status, hasResults |-> hasResults, series |-> series]
None == [kind |-> "none"]

\* The connection fails; the body is no JSON; a JSON object without the
\* Results key; a JSON object {status, Results: {series: [...]}}.
Responses ==
    {Transport, Malformed, Json("REQUEST_NOT_PROCESSED", FALSE, <<>>)}
    \cup {Json("REQUEST_SUCCEEDED", TRUE, s) : s \in SeqsUpTo(ObsUniverse, MaxObs)}

(***************************************************************************)
(* Fetchers                                                                *)
(***************************************************************************)
\* collect_data.py: no try, so requests.post and json.loads raise to the caller
request_json(wire) ==
    IF wire.kind = "transport" THEN Raise("ConnectionError")
    ELSE IF wire.kind = "malformed" THEN Raise("JSONDecodeError")
    ELSE Ok(wire)

\* initial_raw_data.py: every Exception is caught and None returned; a status
\* other than REQUEST_SUCCEEDED only prints a warning
fetch_bls_chunk(wire) ==
    IF wire.kind \in {"transport", "malformed"} THEN Ok(None) ELSE Ok(wire)

\* update_raw_data.py: every Exception is caught and None returned
fetch_bls_data(wire) ==
    IF wire.kind \in {"transport", "malformed"} THEN Ok(None) ELSE Ok(wire)

(***************************************************************************)
(* Parsers                                                                 *)
(***************************************************************************)
series_keys(id) ==
    CASE id = "LNS14000000" -> "Unemployment Rate"
      [] id = "CES0000000001" -> "Employment Level"
      [] id = "CUUR0000SA0" -> "CPI"
      [] id = "CES0500000003" -> "Hourly Earnings"
      [] id = "CES0500000002" -> "Hours Worked"
      [] OTHER -> id

\* the same table, in initial_raw_data.py and in update_raw_data.py
SERIES_MAPPING(id) ==
    CASE id = "LNS14000000" -> "Unemployment Rate"
      [] id = "CES0000000001" -> "Employment Level"
      [] id = "CUUR0000SA0" -> "CPI"
      [] id = "CES0500000003" -> "Hourly Earnings"
      [] id = "CES0500000002" -> "Hours Worked"
      [] OTHER -> id

\* int(period.replace('M', '')): a code with another letter is no integer
PeriodInt(period) ==
    IF period.letter = "M" THEN Ok(period.num) ELSE Raise("ValueError")

\* 'M' in period and period != 'M13'
IsMonthly(period) == period.letter = "M" /\ period # M(13)

\* DataFrame(records).pivot(index = 'Date', columns = 'Series', values = 'Value')
\* and reset_index: one row per date in the order of the date strings, one
\* column per series.  No records: there is no 'Date' column (KeyError); the
\* same (Date, Series) twice: "Index contains duplicate entries" (ValueError).
pivot(records) ==
    IF records = <<>> THEN Raise("KeyError")
    ELSE IF \E i, j \in 1..Len(records) :
               i < j /\ records[i].Date = records[j].Date
                     /\ records[i].Series = records[j].Series
    THEN Raise("ValueError")
    ELSE
      LET ds == {records[i].Date : i \in 1..Len(records)}
          cols == {records[i].Series : i \in 1..Len(records)}
          rank(d) == Cardinality({e \in ds : DateStrLess(e, d)}) + 1
          at(k) == CHOOSE d \in ds : rank(d) = k
          cell(d, c) ==
              IF \E i \in 1..Len(records) : records[i].Date = d /\ records[i].Series = c
              THEN Str(records[CHOOSE i \in 1..Len(records) :
                                 records[i].Date = d /\ records[i].Series = c].Value)
              ELSE NaN
      IN Ok([cols |-> cols,
             rows |-> AsSeq([k \in 1..Cardinality(ds) |->
                         [Date |-> at(k), v |-> [c \in cols |-> cell(at(k), c)]]])])

\* collect_data.py, lines 42-52: a record for every observation
ParseJsonRecords(series) ==
    IF \E i \in 1..Len(series) : PeriodInt(series[i].period).exc # "none"
    THEN Raise("ValueError")
    ELSE Ok([i \in 1..Len(series) |->
               [Date |-> DateStr(series[i].year, PeriodInt(series[i].period).val),
                Series |-> series_keys(series[i].seriesID),
                Value |-> series[i].value]])

\* collect_data.py, lines 58-62: the two to_numeric columns and Weekly Income
WithWeeklyIncome(t) ==
    LET he(r) == to_numeric(r.v["Hourly Earnings"])
        hw(r) == to_numeric(r.v["Hours Worked"])
        wi(r) == round0(FloatMul(he(r), hw(r)))
        cols == t.cols \cup {"Weekly Income"}
    IN [cols |-> cols,
        rows |-> AsSeq([i \in 1..Len(t.rows) |->
                    [Date |-> t.rows[i].Date,
                     v |-> [c \in cols |->
                              CASE c = "Hourly Earnings" -> he(t.rows[i])
                                [] c = "Hours Worked" -> hw(t.rows[i])
                                [] c = "Weekly Income" -> wi(t.rows[i])
                                [] OTHER -> t.rows[i].v[c]]]])]

parse_json(json_data) ==
    IF ~json_data.hasResults THEN Raise("KeyError")
    ELSE
      LET recs == ParseJsonRecords(json_data.series) IN
      IF recs.exc # "none" THEN recs
      ELSE
        LET wide == pivot(recs.val) IN
        IF wide.exc # "none" THEN wide
        ELSE
          LET table == DatesToDatetime(wide.val) IN
          IF table.exc # "none" THEN table
          ELSE IF "Hourly Earnings" \notin table.val.cols THEN Raise("KeyError")
          ELSE IF "Hours Worked" \notin table.val.cols THEN Raise("KeyError")
          ELSE Ok(WithWeeklyIncome(table.val))

\* initial_raw_data.py, lines 46-59, and update_raw_data.py, lines 41-47
MonthlyRecords(series) ==
    LET keep == {i \in 1..Len(series) : IsMonthly(series[i].period)}
        rec(o) == [Date |-> DateStr(o.year, PeriodInt(o.period).val),
                   Series |-> SERIES_MAPPING(o.seriesID),
                   Value |-> o.value]
        kept == Pick(series, keep, 1)
    IN [i \in 1..Len(kept) |-> rec(kept[i])]

\* initial_raw_data.py: the list of records, [] for None or no Results
parse_bls_response(json_data) ==
    IF json_data.kind = "none" \/ ~json_data.hasResults THEN Ok(<<>>)
    ELSE Ok(MonthlyRecords(json_data.series))

\* update_raw_data.py: the wide frame, an empty frame for None, no Results or
\* no record
parse_and_process(json_data) ==
    IF json_data.kind = "none" \/ ~json_data.hasResults THEN Ok(EmptyFrame)
    ELSE
      LET records == MonthlyRecords(json_data.series) IN
      IF records = <<>> THEN Ok(EmptyFrame) ELSE pivot(records)

(***************************************************************************)
(* The clock and the record of the last run                                *)
(***************************************************************************)
\* the months at which a run is started: June, July and August 2024, and a
\* January more than ten years after the hard-coded END_YEAR
Nows == {DateStr(2024, 6), DateStr(2024, 7), DateStr(2024, 8), DateStr(2035, 1)}

NoExc == [in |-> "none", type |-> "none"]
Exc(fn, r) == [in |-> fn, type |-> r.exc]

\* what a response carries: nothing (the connection failed, the body is no
\* JSON), an object without Results, Results without a monthly observation,
\* or monthly observations
Shape(wire) ==
    IF wire.kind \in {"transport", "malformed"} THEN wire.kind
    ELSE IF ~wire.hasResults THEN "no_results"
    ELSE IF \A i \in 1..Len(wire.series) : ~IsMonthly(wire.series[i].period)
    THEN "no_monthly"
    ELSE "monthly"

\* What the last run (the one in progress, when pc is not "idle") did:
\*   prog, branch  the script and the branch it took
\*   reqs          the [start, end] year range of every POST, in order
\*   last          the shape of the response to the last POST
\*   failed        some POST of the run came back without monthly observations
\*   usable        some POST of the run came back with monthly observations
\*   incoming      the frame the parser made of the last response
\*   exc           the exception that ended the run, and where it was raised
\*   msg           the report it printed last
NoRun ==
    [prog |-> "none", branch |-> "none", reqs |-> <<>>, last |-> "none",
     failed |-> FALSE, usable |-> FALSE, incoming |-> EmptyFrame,
     exc |-> NoExc, msg |-> ""]

StartRun(prog, branch) == [NoRun EXCEPT !.prog = prog, !.branch = branch]

Posted(r, start, end, shape) ==
    [r EXCEPT !.reqs = Append(@, [start |-> start, end |-> end]),
              !.last = shape,
              !.failed = @ \/ shape # "monthly",
              !.usable = @ \/ shape = "monthly"]

Min(a, b) == IF a <= b THEN a ELSE b

(***************************************************************************)
(* collect_data.py                                                         *)
(***************************************************************************)
\* new_json_data = request_json(...); new_df = parse_json(new_json_data), of
\* initial_data() and of update_data(): the frame, or the exception that
\* leaves the function
RequestAndParse(wire) ==
    LET new_json_data == request_json(wire) IN
    IF new_json_data.exc # "none"
    THEN [exc |-> Exc("request_json", new_json_data), new_df |-> EmptyFrame]
    ELSE LET new_df == parse_json(new_json_data.val) IN
         IF new_df.exc # "none"
         THEN [exc |-> Exc("parse_json", new_df), new_df |-> EmptyFrame]
         ELSE [exc |-> NoExc, new_df |-> new_df.val]

\* what a run of collect_data.py gets of a POST, for every response
CollectResponses ==
    {[shape |-> Shape(w), got |-> RequestAndParse(w)] : w \in Responses}

\* datetime.now() - pd.DateOffset(months = 1), as (year, month)
MonthBefore(d) ==
    IF d.month = 1 THEN DateStr(d.year - 1, 12) ELSE DateStr(d.year, d.month - 1)

\* the difference taken from the current month itself, not from the month
\* before it
month_diff_no_offset(f, today) ==
    LET current_date == today
        data_date == SeqMax(Dates(LoadSnapshot(f)))
    IN (current_date.year - TsYear(data_date)) * 12
         + (current_date.month - TsMonth(data_date))

\* collect_data.py, lines 111-117, on the snapshot file f at the date today
month_diff(f, today) ==
    LET current_date == MonthBefore(today)
        data_date == SeqMax(Dates(LoadSnapshot(f)))
    IN (current_date.year - TsYear(data_date)) * 12
         + (current_date.month - TsMonth(data_date))

\* if month_diff < 1
UpToDate(f, today) == month_diff(f, today) < 1

\* collect_data(), data.csv found, month_diff < 1: only a report
CollectDataUpToDate ==
    /\ pc = "idle"
    /\ dataCsv # Absent
    /\ UpToDate(dataCsv, now)
    /\ run' = [StartRun("collect_data", "up_to_date")
                 EXCEPT !.msg = "data.csv found. data is up to date"]
    /\ UNCHANGED <<now, dataCsv, rawCsv, pc, df, all_records, start_year, call>>

\* update_data() on the file f in the year this_year, the POST answered by
\* resp: the file it leaves and the record of the run
update_data(f, this_year, resp) ==
    LET old == LoadSnapshot(f)
        first == TsYear(SeqMax(Dates(old)))
        r == Posted(StartRun("collect_data", "update_data"), first, this_year,
                    resp.shape)
        new_df == resp.got.new_df
        merged == drop_duplicates_last(concat(old, new_df))
    IN IF resp.got.exc # NoExc
       THEN [file |-> f, run |-> [r EXCEPT !.exc = resp.got.exc]]
       ELSE IF ~IsEmpty(new_df)
       \* df.sort_values('Date') returns a sorted copy, which is dropped
       THEN [file |-> to_csv(merged),
             run |-> [r EXCEPT !.incoming = new_df,
                               !.msg = "data.csv found. update data"]]
       ELSE [file |-> f, run |-> [r EXCEPT !.msg = "no new data available."]]

\* collect_data(), data.csv found, month_diff >= 1: update_data()
CollectDataUpdate ==
    /\ pc = "idle"
    /\ dataCsv # Absent
    /\ ~UpToDate(dataCsv, now)
    /\ \E resp \in CollectResponses :
          LET end == update_data(dataCsv, now.year, resp)
          IN /\ dataCsv' = end.file
             /\ run' = end.run
    /\ UNCHANGED <<now, rawCsv, pc, df, all_records, start_year, call>>

\* collect_data(), no data.csv: initial_data() up to its loop
CollectDataInitial ==
    /\ pc = "idle"
    /\ dataCsv = Absent
    /\ pc' = "initial_data"
    /\ df' = EmptyFrame
    /\ start_year' = default_start_year
    /\ run' = StartRun("collect_data", "initial_data")
    /\ UNCHANGED <<now, dataCsv, rawCsv, all_records, call>>

\* initial_data() after its loop: df.sort_values('Date') returns a sorted copy,
\* which is dropped, and df is written as it was concatenated
InitialDataWrite(frame) == to_csv(frame)

\* one turn of the loop of initial_data() (default_end_year is this year) and,
\* when it was the last turn, the rest of initial_data()
InitialDataChunk ==
    /\ pc = "initial_data"
    /\ start_year <= now.year
    /\ \E resp \in CollectResponses :
          LET end_year == Min(start_year + 9, now.year)
              r == Posted(run, start_year, end_year, resp.shape)
              new_df == resp.got.new_df
          IN IF resp.got.exc # NoExc
             THEN /\ run' = [r EXCEPT !.exc = resp.got.exc]
                  /\ pc' = "idle"
                  /\ df' = EmptyFrame
                  /\ start_year' = default_start_year
                  /\ UNCHANGED dataCsv
             ELSE IF start_year + 10 <= now.year
             THEN /\ run' = [r EXCEPT !.incoming = new_df]
                  /\ df' = concat(df, new_df)
                  /\ start_year' = start_year + 10
                  /\ UNCHANGED <<pc, dataCsv>>
             ELSE /\ dataCsv' = InitialDataWrite(concat(df, new_df))
                  /\ run' = [r EXCEPT !.incoming = new_df,
                                      !.msg = "create data.csv"]
                  /\ pc' = "idle"
                  /\ df' = EmptyFrame
                  /\ start_year' = default_start_year
    /\ UNCHANGED <<now, rawCsv, all_records, call>>

(***************************************************************************)
(* initial_raw_data.py                                                     *)
(***************************************************************************)
\* what main() gets of the POST of one chunk, for every response:
\* records = parse_bls_response(fetch_bls_chunk(...))
ChunkResponses ==
    {[shape |-> Shape(w),
      records |-> parse_bls_response(fetch_bls_chunk(w).val).val] : w \in Responses}

\* main() up to its loop; it does not look for an existing raw_data.csv
InitialRawStart ==
    /\ pc = "idle"
    /\ pc' = "initial_raw"
    /\ all_records' = <<>>
    /\ start_year' = START_YEAR
    /\ run' = StartRun("initial_raw_data", "main")
    /\ UNCHANGED <<now, dataCsv, rawCsv, df, call>>

\* main() after its loop, on the records of all chunks: pivot, sort and save,
\* or the FAILURE report.  The file (f when nothing is written) and the record
\* of the run.
InitialRawWrite(f, records, r) ==
    LET df_wide == pivot(records)
        dated == DatesToDatetime(df_wide.val)
    IN IF records = <<>>
       THEN [file |-> f, run |-> [r EXCEPT !.msg = "FAILURE: No data found."]]
       ELSE IF df_wide.exc # "none"
       THEN [file |-> f, run |-> [r EXCEPT !.exc = Exc("main", df_wide)]]
       ELSE IF dated.exc # "none"
       THEN [file |-> f, run |-> [r EXCEPT !.exc = Exc("main", dated)]]
       ELSE [file |-> to_csv(sort_values(dated.val)),
             run |-> [r EXCEPT !.incoming = dated.val,
                               !.msg = "SUCCESS: Created raw_data.csv"]]

\* one turn of for y in range(START_YEAR, END_YEAR + 1, 10) and, when it was
\* the last turn, the rest of main()
InitialRawChunk ==
    /\ pc = "initial_raw"
    /\ start_year <= END_YEAR
    /\ \E resp \in ChunkResponses :
          LET chunk_end == Min(start_year + 9, END_YEAR)
              r == Posted(run, start_year, chunk_end, resp.shape)
              end == InitialRawWrite(rawCsv, all_records \o resp.records, r)
          IN IF start_year + 10 <= END_YEAR
             THEN /\ run' = r
                  /\ all_records' = all_records \o resp.records
                  /\ start_year' = start_year + 10
                  /\ UNCHANGED <<pc, rawCsv>>
             ELSE /\ rawCsv' = end.file
                  /\ run' = end.run
                  /\ pc' = "idle"
                  /\ all_records' = <<>>
                  /\ start_year' = default_start_year
    /\ UNCHANGED <<now, dataCsv, df, call>>

(***************************************************************************)
(* update_raw_data.py                                                      *)
(***************************************************************************)
\* what main() gets of its POST, for every response:
\* df_new = parse_and_process(fetch_bls_data(...))
UpdateResponses ==
    {[shape |-> Shape(w),
      df_new |-> parse_and_process(fetch_bls_data(w).val)] : w \in Responses}

\* main(), no raw_data.csv: an error report and nothing else
UpdateRawMissing ==
    /\ pc = "idle"
    /\ rawCsv = Absent
    /\ run' = [StartRun("update_raw_data", "not_found")
                 EXCEPT !.msg = "ERROR: raw_data.csv not found. Run import_raw_data.py first."]
    /\ UNCHANGED <<now, dataCsv, rawCsv, pc, df, all_records, start_year, call>>

\* main() on the file f in the year this_year, the POST answered by resp: the
\* file it leaves and the record of the run
update_raw_main(f, this_year, resp) ==
    LET df_existing == LoadSnapshot(f)
        last_date == SeqMax(Dates(df_existing))
        first == TsYear(last_date)
        r == Posted(StartRun("update_raw_data", "main"), first, this_year,
                    resp.shape)
        parsed == resp.df_new
        dated == DatesToDatetime(parsed.val)
        df_new == FilterAfter(dated.val, last_date)
        df_combined == sort_values(concat(df_existing, df_new))
    IN IF parsed.exc # "none"
       THEN [file |-> f, run |-> [r EXCEPT !.exc = Exc("parse_and_process", parsed)]]
       ELSE IF IsEmpty(parsed.val)
       THEN [file |-> f, run |-> [r EXCEPT !.msg = "No new data returned from API."]]
       ELSE IF dated.exc # "none"
       THEN [file |-> f, run |-> [r EXCEPT !.exc = Exc("main", dated)]]
       ELSE IF IsEmpty(df_new)
       THEN [file |-> f, run |-> [r EXCEPT !.incoming = dated.val,
                                           !.msg = "Data is already up to date."]]
       ELSE [file |-> to_csv(df_combined),
             run |-> [r EXCEPT !.incoming = dated.val,
                               !.msg = "SUCCESS: Appended new months."]]

\* main(), raw_data.csv found
UpdateRawMain ==
    /\ pc = "idle"
    /\ rawCsv # Absent
    /\ \E resp \in UpdateResponses :
          LET end == update_raw_main(rawCsv, now.year, resp)
          IN /\ rawCsv' = end.file
             /\ run' = end.run
    /\ UNCHANGED <<now, dataCsv, pc, df, all_records, start_year, call>>

(***************************************************************************)
(* The fetchers and the parsers on their own                               *)
(***************************************************************************)
\* the JSON objects a fetcher can hand to a parser
Payloads ==
    {Json("REQUEST_NOT_PROCESSED", FALSE, <<>>)}
    \cup {Json("REQUEST_SUCCEEDED", TRUE, s) : s \in SeqsUpTo(ObsUniverse, MaxPayload)}

NoCall == [fn |-> "none"]
Called(fn, arg, out) == [fn |-> fn, arg |-> arg, out |-> out]

\* what a call of a fetcher or a parser leaves alone
Idle == <<now, dataCsv, rawCsv, pc, df, all_records, start_year, run>>

CallRequestJson ==
    /\ call = NoCall
    /\ \E w \in Responses : call' = Called("request_json", w, request_json(w))
    /\ UNCHANGED Idle

CallFetchBlsChunk ==
    /\ call = NoCall
    /\ \E w \in Responses : call' = Called("fetch_bls_chunk", w, fetch_bls_chunk(w))
    /\ UNCHANGED Idle

CallFetchBlsData ==
    /\ call = NoCall
    /\ \E w \in Responses : call' = Called("fetch_bls_data", w, fetch_bls_data(w))
    /\ UNCHANGED Idle

\* parse_json is only ever handed what request_json returned
CallParseJson ==
    /\ call = NoCall
    /\ \E j \in Payloads : call' = Called("parse_json", j, parse_json(j))
    /\ UNCHANGED Idle

CallParseBlsResponse ==
    /\ call = NoCall
    /\ \E j \in Payloads \cup {None} :
          call' = Called("parse_bls_response", j, parse_bls_response(j))
    /\ UNCHANGED Idle

CallParseAndProcess ==
    /\ call = NoCall
    /\ \E j \in Payloads \cup {None} :
          call' = Called("parse_and_process", j, parse_and_process(j))
    /\ UNCHANGED Idle

(***************************************************************************)
(* process_data.py: raw_data.csv -> processed_data.csv                     *)
(***************************************************************************)
\* the column c of the frame t has dtype object
\* the dtype read_csv gives the column c of the file f: int64 when every cell
\* is a numeral without a point, float64 when every cell is a numeral or
\* empty, object (strings, and NaN for the empty cells) otherwise
Dtype(f, c) ==
    LET cell(i) == f.rows[i].v[c]
        whole(x) == Numerals[NumeralIndex(x)].places = 0
    IN IF \A i \in 1..Len(f.rows) : IsNumeral(cell(i)) /\ whole(cell(i)) THEN "int64"
       ELSE IF \A i \in 1..Len(f.rows) : cell(i) = "" \/ IsNumeral(cell(i)) THEN "float64"
       ELSE "object"

RECURSIVE Repeat(_, _)
\* str * int: the string n times over
Repeat(s, n) == IF n <= 0 THEN "" ELSE s \o Repeat(s, n - 1)

\* x * y on one row of two columns, xint and yint telling which column is
\* int64.  A row with a missing cell gives NaN (pandas retries an operator
\* that raised on the rows where both cells are present); a string times a
\* cell of an int64 column is the string repeated; a string times a string or
\* a float raises TypeError.
Times(x, y, xint, yint) ==
    IF x = NaN \/ y = NaN THEN Ok(NaN)
    ELSE IF x.k = "float" /\ y.k = "float" THEN Ok(FloatMul(x, y))
    ELSE IF x.k = "str" /\ y.k = "float" /\ yint THEN Ok(Str(Repeat(x.s, IntOf(y))))
    ELSE IF x.k = "float" /\ y.k = "str" /\ xint THEN Ok(Str(Repeat(y.s, IntOf(x))))
    ELSE Raise("TypeError")

\* x / y on one row: a string does not divide and is not divided by
Over(x, y) ==
    IF x = NaN \/ y = NaN THEN Ok(NaN)
    ELSE IF x.k = "float" /\ y.k = "float" THEN Ok(FloatDiv(x, y))
    ELSE Raise("TypeError")

\* line 23 in the row i of the sorted frame t read from the file f
Weekly(f, t, i) ==
    Times(t.rows[i].v["Hourly Earnings"], t.rows[i].v["Hours Worked"],
          Dtype(f, "Hourly Earnings") = "int64", Dtype(f, "Hours Worked") = "int64")

\* line 29 in the row i of t: Weekly Earnings over CPI, then times the scalar
\* latest_cpi of line 28 (the int64 of a CPI cell plays no part: no string
\* reaches the product)
Real(f, t, i) ==
    LET latest_cpi == t.rows[Len(t.rows)].v["CPI"]
        q == Over(Weekly(f, t, i).val, t.rows[i].v["CPI"])
    IN IF q.exc # "none" THEN q ELSE Times(q.val, latest_cpi, FALSE, FALSE)

Line23Raises(f, t) == \E i \in 1..Len(t.rows) : Weekly(f, t, i).exc # "none"

Line29Raises(f, t) == \E i \in 1..Len(t.rows) : Real(f, t, i).exc # "none"

\* Weekly Earnings, or Real Weekly Earnings, is a column of dtype object
WeeklyIsObject(f) ==
    Dtype(f, "Hourly Earnings") = "object" \/ Dtype(f, "Hours Worked") = "object"

RealIsObject(f) == WeeklyIsObject(f) \/ Dtype(f, "CPI") = "object"

\* Series.round(2) of lines 32-33 on one cell: a cell of an object column is
\* left as it is by a pandas in which round does not raise on such a column
Rounded(c) == IF c.k = "float" THEN round2(c) ELSE c

\* lines 23-33 on the sorted frame t in which no operator raised
Derive(f, t) ==
    LET cols == t.cols \cup {"Weekly Earnings", "Real Weekly Earnings"}
    IN [cols |-> cols,
        rows |-> AsSeq([i \in 1..Len(t.rows) |->
                    [Date |-> t.rows[i].Date,
                     v |-> [c \in cols |->
                              IF c = "Weekly Earnings" THEN Rounded(Weekly(f, t, i).val)
                              ELSE IF c = "Real Weekly Earnings" THEN Rounded(Real(f, t, i).val)
                              ELSE t.rows[i].v[c]]]])]

\* process_macro_data() on the file f: what it prints last and the frame it
\* hands to df.to_csv(OUTPUT_FILE), if it gets there.  Series.round(2) on a
\* column of dtype object depends on the pandas installed: it raises
\* TypeError (round_raises) or returns the column as it is.
process_macro_data(f, round_raises) ==
    IF f = Absent
    THEN Ok([msg |-> "ERROR: raw_data.csv not found. Run import_raw_data.py first.",
             saved |-> FALSE, df |-> EmptyFrame])
    ELSE LET loaded == DatesToDatetime(read_csv(f))
             t == sort_values(loaded.val)
         IN IF loaded.exc # "none" THEN loaded
            ELSE IF ~({"Hourly Earnings", "Hours Worked"} \subseteq t.cols)
            THEN Raise("KeyError")
            ELSE IF Line23Raises(f, t) THEN Raise("TypeError")
            ELSE IF "CPI" \notin t.cols THEN Raise("KeyError")
            ELSE IF Line29Raises(f, t) THEN Raise("TypeError")
            ELSE IF round_raises /\ RealIsObject(f) THEN Raise("TypeError")
            ELSE Ok([msg |-> "SUCCESS: Data processed and saved to processed_data.csv",
                     saved |-> TRUE, df |-> Derive(f, t)])

\* whether Series.round raises on an object column: either way when the file
\* makes such a column, and of no effect otherwise
RoundRaises(f) ==
    IF f # Absent /\ \E c \in f.cols : Dtype(f, c) = "object" THEN BOOLEAN ELSE {FALSE}

\* the cells a raw_data.csv can hold in the column c: empty, the placeholder
\* "-" of the API, a numeral without a point and numerals with one
RawTexts(c) ==
    IF c = "CPI" THEN {"", "-", "2", "1.1"}
    ELSE IF c = "Hourly Earnings" THEN {"", "-", "1", "1.45"}
    ELSE {"", "-", "2", "1.1", "0.7"}

RawDates == {DateStr(2024, 5), DateStr(2024, 6)}

RawRows(cols) ==
    {r \in [Date : RawDates, v : [cols -> UNION {RawTexts(c) : c \in cols}]] :
        /\ \A c \in cols : r.v[c] \in RawTexts(c)
        /\ \E c \in cols : r.v[c] # ""}

\* the raw_data.csv files of at most MaxRows rows, one row per date, in
\* any order, with and without a CPI column; as the raw scripts pivot them,
\* every row and every column holds a value
RawFiles ==
    UNION {{[cols |-> cols, rows |-> rows] :
              rows \in {q \in SeqsUpTo(RawRows(cols), MaxRows) :
                          /\ Len(q) > 0
                          /\ \A i, j \in 1..Len(q) : i # j => q[i].Date # q[j].Date
                          /\ \A c \in cols : \E i \in 1..Len(q) : q[i].v[c] # ""}} :
           cols \in {{"Hourly Earnings", "Hours Worked", "CPI"},
                     {"Hourly Earnings", "Hours Worked"}}}

\* python process_data.py
ProcessMacroData ==
    /\ call = NoCall
    /\ \E round_raises \in RoundRaises(rawCsv) :
          call' = Called("process_macro_data", rawCsv,
                         process_macro_data(rawCsv, round_raises))
    /\ UNCHANGED Idle

(***************************************************************************)
(* The environment and the specifications                                  *)
(***************************************************************************)
\* time passes between two runs
Tick ==
    /\ pc = "idle"
    /\ \E n \in Nows : DateStrLess(now, n) /\ now' = n
    /\ UNCHANGED <<dataCsv, rawCsv, pc, df, all_records, start_year, run, call>>

Init ==
    /\ now \in Nows
    /\ dataCsv = Absent
    /\ rawCsv = Absent
    /\ pc = "idle"
    /\ df = EmptyFrame
    /\ all_records = <<>>
    /\ start_year = default_start_year
    /\ run = NoRun
    /\ call = NoCall

\* process_data.py finds any raw_data.csv, or none
InitProcess ==
    /\ now = DateStr(2024, 7)
    /\ dataCsv = Absent
    /\ rawCsv \in RawFiles \cup {Absent}
    /\ pc = "idle"
    /\ df = EmptyFrame
    /\ all_records = <<>>
    /\ start_year = default_start_year
    /\ run = NoRun
    /\ call = NoCall

NextCollect ==
    \/ CollectDataUpToDate
    \/ CollectDataUpdate
    \/ CollectDataInitial
    \/ InitialDataChunk
    \/ Tick

NextRaw ==
    \/ InitialRawStart
    \/ InitialRawChunk
    \/ UpdateRawMissing
    \/ UpdateRawMain
    \/ Tick

NextParse ==
    \/ CallRequestJson
    \/ CallFetchBlsChunk
    \/ CallFetchBlsData
    \/ CallParseJson
    \/ CallParseBlsResponse
    \/ CallParseAndProcess

NextProcess == ProcessMacroData

Next == NextCollect \/ NextRaw

\* the runs of collect_data.py on data.csv
SpecCollect == Init /\ [][NextCollect]_vars

\* the runs of initial_raw_data.py and update_raw_data.py on raw_data.csv
SpecRaw == Init /\ [][NextRaw]_vars

\* the fetchers and the parsers, each applied to every response
SpecParse == Init /\ [][NextParse]_vars

\* process_data.py applied to every raw_data.csv
SpecProcess == InitProcess /\ [][NextProcess]_vars

\* both pipelines
Spec == Init /\ [][Next]_vars

(***************************************************************************)
(* Vocabulary of the properties                                            *)
(***************************************************************************)
\* the rows of the file f are in strictly increasing date order (so no date
\* occurs twice)
StrictlyIncreasing(f) ==
    f = Absent \/
    \A i \in 1..(Len(f.rows) - 1) : DateStrLess(f.rows[i].Date, f.rows[i + 1].Date)

FileDates(f) == IF f = Absent THEN {} ELSE {f.rows[i].Date : i \in 1..Len(f.rows)}

\* the latest date of the file f
MaxDate(f) == CHOOSE d \in FileDates(f) : \A e \in FileDates(f) : ~DateStrLess(d, e)

\* months since year 0
Months(d) == d.year * 12 + d.month

\* the step is a run, or the last turn of one, that ends (time stands still
\* during a run)
RunEnds == now' = now /\ pc' = "idle" /\ run' # NoRun

\* the step is a whole run of a script that found its snapshot file
UpdateRun(prog) == pc = "idle" /\ now' = now /\ pc' = "idle" /\ run'.prog = prog

(***************************************************************************)
(* C1                                                                      *)
(***************************************************************************)
\* C1: after any sequence of runs, with any API responses, the snapshot file
\* holds at most one row per month and its rows are in strictly increasing
\* date order.  collect_data.py breaks it: both df.sort_values('Date') calls
\* drop their result, and initial_data() does not deduplicate.
C1_SnapshotOrdered == StrictlyIncreasing(dataCsv) /\ StrictlyIncreasing(rawCsv)

(***************************************************************************)
(* C2                                                                      *)
(***************************************************************************)
\* the row of date d of frame t (dates as Timestamps) is in file g exactly
\* once, with the values of t's row
HeldOnceWith(g, t, i) ==
    LET d == TsText(t.rows[i].Date)
        at == {k \in 1..Len(g.rows) : g.rows[k].Date = d}
    IN /\ Cardinality(at) = 1
       /\ \A k \in at : \A c \in t.cols :
             c \in g.cols /\ g.rows[k].v[c] = CellText(t.rows[i].v[c])

\* the update run of this step merged the incoming rows as C2 says: every
\* incoming date that the file already held is held once afterwards, with the
\* incoming row's values
IncomingWins(prog, f, g) ==
    (UpdateRun(prog) /\ f # Absent /\ run'.exc = NoExc) =>
        \A i \in 1..Len(run'.incoming.rows) :
            TsText(run'.incoming.rows[i].Date) \in FileDates(f)
                => HeldOnceWith(g, run'.incoming, i)

\* C2: when the incoming rows of an incremental update contain a date that the
\* snapshot already holds, the persisted result holds that date once, with the
\* incoming row's values.  update_raw_data.py breaks it: it drops every
\* incoming row that is not after the snapshot's last date.
C2_IncomingWins ==
    [][IncomingWins("update_raw_data", rawCsv, rawCsv')
       /\ (run'.branch = "update_data" => IncomingWins("collect_data", dataCsv, dataCsv'))]_vars

(***************************************************************************)
(* C3                                                                      *)
(***************************************************************************)
\* the response carried no row: no Results key, or no monthly observation
NothingIncoming(r) == r.last \in {"no_results", "no_monthly"}

\* C3: an incremental update whose incoming table has no rows ends without an
\* exception, reports that nothing was updated and leaves the file as it was.
\* update_data() of collect_data.py breaks it: parse_json raises KeyError.
C3_EmptyUpdateIsNoError ==
    [][/\ (UpdateRun("collect_data") /\ run'.branch = "update_data" /\ NothingIncoming(run'))
            => /\ run'.exc = NoExc
               /\ run'.msg = "no new data available."
               /\ dataCsv' = dataCsv
       /\ (UpdateRun("update_raw_data") /\ run'.branch = "main" /\ NothingIncoming(run'))
            => /\ run'.exc = NoExc
               /\ run'.msg = "No new data returned from API."
               /\ rawCsv' = rawCsv]_vars

(***************************************************************************)
(* C4                                                                      *)
(***************************************************************************)
\* C4: a run in which some fetch failed (the connection, the JSON, or a
\* response without usable data) writes nothing.  main() of
\* initial_raw_data.py breaks it: the records of the chunks that did come
\* back are pivoted and saved.
C4_FailedRunWritesNothing ==
    [][(RunEnds /\ run'.failed) => (dataCsv' = dataCsv /\ rawCsv' = rawCsv)]_vars

(***************************************************************************)
(* C5                                                                      *)
(***************************************************************************)
Fetchers == {"request_json", "fetch_bls_chunk", "fetch_bls_data"}

\* C5: a fetcher whose POST fails, or whose response is no JSON or reports a
\* status other than success, returns an empty or error value and raises
\* nothing.  request_json breaks it: it has no try.
C5_FetchersRaiseNothing ==
    (call.fn \in Fetchers) =>
        /\ call.out.exc = "none"
        /\ call.arg.kind \in {"transport", "malformed"} => call.out.val = None
        /\ call.arg.kind = "json" => call.out.val = call.arg

(***************************************************************************)
(* C6                                                                      *)
(***************************************************************************)
Parsers == {"parse_json", "parse_bls_response", "parse_and_process"}

\* the period codes M01 .. M12
MonthCode(period) == period.letter = "M" /\ period.num \in 1..12

\* no payload, no Results key, or no observation of a month
Degenerate(j) ==
    \/ j.kind = "none"
    \/ ~j.hasResults
    \/ \A i \in 1..Len(j.series) : ~MonthCode(j.series[i].period)

\* the number of rows (of records, for parse_bls_response) of a parser's result
OutLen(c) == IF c.fn = "parse_bls_response" THEN Len(c.out.val) ELSE Len(c.out.val.rows)

\* C6: a parser given no payload, a payload without Results, or one without an
\* accepted observation returns an empty result and raises nothing.
\* parse_json breaks it: KeyError on json_data['Results'] and in pivot,
\* ValueError on M13 and on A01.
C6_DegeneratePayloadParsesEmpty ==
    (call.fn \in Parsers /\ Degenerate(call.arg)) =>
        (call.out.exc = "none" /\ OutLen(call) = 0)

(***************************************************************************)
(* C7                                                                      *)
(***************************************************************************)
\* the payload j without its observations of other periods than M01 .. M12
MonthsOnly(j) ==
    [j EXCEPT !.series =
        Pick(j.series, {i \in 1..Len(j.series) : MonthCode(j.series[i].period)}, 1)]

ParserOf(fn, j) ==
    CASE fn = "parse_json" -> parse_json(j)
      [] fn = "parse_bls_response" -> parse_bls_response(j)
      [] fn = "parse_and_process" -> parse_and_process(j)

\* the dates of a parser's result
OutDates(c) ==
    IF c.fn = "parse_bls_response"
    THEN {c.out.val[i].Date : i \in 1..Len(c.out.val)}
    ELSE IF c.fn = "parse_json"
    THEN {TsText(c.out.val.rows[i].Date) : i \in 1..Len(c.out.val.rows)}
    ELSE {c.out.val.rows[i].Date : i \in 1..Len(c.out.val.rows)}

MonthDates(j) ==
    {DateStr(j.series[i].year, j.series[i].period.num) :
        i \in {k \in 1..Len(j.series) : MonthCode(j.series[k].period)}}

\* C7: a parser emits a record for an observation exactly when its period is
\* one of M01 .. M12: an observation of another period adds no row and no
\* error.  parse_json breaks it: it has no filter, so M13 becomes the date
\* string "2019-13-01", which pd.to_datetime rejects, and A01 is no integer.
C7_OnlyMonthsAreParsed ==
    (call.fn \in Parsers /\ call.arg.kind = "json" /\ call.arg.hasResults) =>
        /\ ParserOf(call.fn, MonthsOnly(call.arg)).exc = "none" => call.out.exc = "none"
        /\ call.out.exc = "none" => OutDates(call) = MonthDates(call.arg)

(***************************************************************************)
(* C8                                                                      *)
(***************************************************************************)
\* C8: every POST of every run asks for at most 10 years, start and end
\* included.  Both update scripts break it: they ask for the last year of the
\* file through this year in one POST, however old the file.
C8_AtMostTenYears ==
    \A i \in 1..Len(run.reqs) : run.reqs[i].end - run.reqs[i].start + 1 <= 10

(***************************************************************************)
(* C9                                                                      *)
(***************************************************************************)
\* the snapshot f is stale at the date today: the month before today is at
\* least one whole month after the snapshot's latest date
Stale(f, today) == (Months(today) - 1) - Months(MaxDate(f)) >= 1

\* C9: collect_data() on an existing snapshot takes the update branch exactly
\* when the snapshot is stale and the up-to-date branch otherwise, and in the
\* latter it posts nothing and leaves the file as it is.
C9_StalenessClassification ==
    [][(pc = "idle" /\ dataCsv # Absent /\ now' = now /\ run'.prog = "collect_data") =>
          /\ Stale(dataCsv, now) <=> run'.branch = "update_data"
          /\ ~Stale(dataCsv, now) <=> run'.branch = "up_to_date"
          /\ run'.branch = "up_to_date" =>
                /\ run'.reqs = <<>>
                /\ dataCsv' = dataCsv
                /\ run'.msg = "data.csv found. data is up to date"]_vars

\* a snapshot ending in June 2024 was found up to date in July 2024, the last
\* month in which it is
C9_Witness ==
    /\ run.prog = "collect_data" /\ run.branch = "up_to_date"
    /\ now = DateStr(2024, 7)
    /\ dataCsv # Absent /\ MaxDate(dataCsv) = DateStr(2024, 6)

(***************************************************************************)
(* C10                                                                     *)
(***************************************************************************)
\* C10: a fetch/update run that finds no snapshot file reports no error and
\* starts the full backfill from the fixed start year; a backfill that ends
\* has asked for every year through the current one and has written the file.
\* main() of update_raw_data.py breaks it: it prints an error and returns.
C10_AbsentStartsBackfill ==
    [][/\ (pc = "idle" /\ now' = now /\ run'.prog = "collect_data" /\ dataCsv = Absent)
            => (pc' = "initial_data" /\ start_year' = default_start_year /\ run'.msg = "")
       /\ (pc = "idle" /\ now' = now /\ run'.prog = "update_raw_data" /\ rawCsv = Absent)
            => (pc' = "initial_raw" /\ start_year' = START_YEAR /\ run'.msg = "")
       /\ (pc = "initial_data" /\ pc' = "idle" /\ run'.exc = NoExc)
            => /\ dataCsv' # Absent
               /\ run'.reqs[1].start = default_start_year
               /\ run'.reqs[Len(run'.reqs)].end = now.year
               /\ \A i \in 1..(Len(run'.reqs) - 1) :
                     run'.reqs[i + 1].start = run'.reqs[i].end + 1]_vars

(***************************************************************************)
(* C11                                                                     *)
(***************************************************************************)
\* process_data.py was run on a raw_data.csv with the three columns it reads
Processed ==
    /\ call.fn = "process_macro_data"
    /\ call.arg # Absent
    /\ {"Hourly Earnings", "Hours Worked", "CPI"} \subseteq call.arg.cols

\* the value of a cell of the file, not-a-number when it is empty or no numeral
Coerced(x) == IF IsNumeral(x) THEN NumeralValue(x) ELSE NaN

\* Hourly Earnings times Hours Worked of the row r of the file
Product(r) == FloatMul(Coerced(r.v["Hourly Earnings"]), Coerced(r.v["Hours Worked"]))

\* C11: the derived table has exactly the dates of the input, and in every row
\* Weekly Earnings is not-a-number when Hourly Earnings or Hours Worked is
\* missing or no number, and their product rounded to 2 places otherwise;
\* nothing is raised.  process_macro_data() breaks it: it does not coerce, and
\* the placeholder "-" of the API in a column ends it with TypeError.
C11_WeeklyEarnings ==
    Processed =>
        /\ call.out.exc = "none"
        /\ Len(call.out.val.df.rows) = Len(call.arg.rows)
        /\ \A i \in 1..Len(call.arg.rows) :
              \E j \in 1..Len(call.out.val.df.rows) :
                 /\ TsText(call.out.val.df.rows[j].Date) = call.arg.rows[i].Date
                 /\ call.out.val.df.rows[j].v["Weekly Earnings"]
                       = round2(Product(call.arg.rows[i]))

(***************************************************************************)
(* C12                                                                     *)
(***************************************************************************)
\* the row of the latest date of the frame t
Latest(t) ==
    CHOOSE m \in 1..Len(t.rows) : \A i \in 1..Len(t.rows) : t.rows[i].Date <= t.rows[m].Date

\* C12: in the derived table the row of the latest date has Real Weekly
\* Earnings equal to its Weekly Earnings, and every other row has its Weekly
\* Earnings divided by its CPI times the CPI of the latest row, rounded to 2
\* places.  process_macro_data() breaks it when the latest row has no CPI:
\* latest_cpi is not-a-number and so is the whole column.
C12_RealWeeklyEarnings ==
    (Processed /\ call.out.exc = "none") =>
        LET t == call.out.val.df
            m == Latest(t)
            number(c) == IF c.k = "float" THEN c ELSE NaN
            weekly(i) == FloatMul(number(t.rows[i].v["Hourly Earnings"]),
                                  number(t.rows[i].v["Hours Worked"]))
        IN /\ t.rows[m].v["Real Weekly Earnings"] = t.rows[m].v["Weekly Earnings"]
           /\ \A i \in 1..Len(t.rows) :
                 i # m => t.rows[i].v["Real Weekly Earnings"]
                            = round2(FloatMul(FloatDiv(weekly(i), number(t.rows[i].v["CPI"])),
                                              number(t.rows[m].v["CPI"])))

(***************************************************************************)
(* C13                                                                     *)
(***************************************************************************)
\* the series the API of the model serves
KnownIds == {HourlyEarningsId, HoursWorkedId}

\* C13: a persisted snapshot always has the same columns: one per known
\* series (and the derived one in data.csv), whichever series the responses
\* carried.  The raw scripts break it: the columns of raw_data.csv are the
\* series that happened to be in the responses.
C13_FixedColumns ==
    /\ rawCsv # Absent => rawCsv.cols = {SERIES_MAPPING(id) : id \in KnownIds}
    /\ dataCsv # Absent =>
          dataCsv.cols = {series_keys(id) : id \in KnownIds} \cup {"Weekly Income"}

(***************************************************************************)
(* C14                                                                     *)
(***************************************************************************)
\* the row i of the file f is in the file g, with the same values
RowKept(f, i, g) ==
    \E k \in 1..Len(g.rows) :
        /\ g.rows[k].Date = f.rows[i].Date
        /\ \A c \in f.cols : c \in g.cols /\ g.rows[k].v[c] = f.rows[i].v[c]

\* from the file f to the file g no month is lost
MonthsKept(f, g) == f # Absent => (g # Absent /\ FileDates(f) \subseteq FileDates(g))

\* the update run of this step kept the rows of the months that did not come
\* in
HistoryKept(prog, f, g) ==
    (UpdateRun(prog) /\ f # Absent) =>
        \A i \in 1..Len(f.rows) :
            f.rows[i].Date \notin
                {TsText(run'.incoming.rows[k].Date) : k \in 1..Len(run'.incoming.rows)}
            => RowKept(f, i, g)

\* C14: an incremental update keeps every month of the snapshot, with its
\* values when the month did not come in, and over any sequence of runs the
\* months of a snapshot only grow.  initial_raw_data.py breaks it: run again,
\* it replaces raw_data.csv by what the API returned this time.
C14_HistoryPreserved ==
    [][/\ MonthsKept(dataCsv, dataCsv') /\ MonthsKept(rawCsv, rawCsv')
       /\ HistoryKept("update_raw_data", rawCsv, rawCsv')
       /\ (run'.branch = "update_data" => HistoryKept("collect_data", dataCsv, dataCsv'))]_vars

====
